---- MODULE Spec2Model ----
(***************************************************************************)
(* orientseq: orientation of sequencing reads by their poly-A / poly-T     *)
(* tails.  The module models src/orientseq/__main__.py:                    *)
(*   - find_poly, one loop iteration per step (specification SpecScan);    *)
(*   - read_and_write_fastx / read_and_write_alignment and main, one step  *)
(*     per record read and one per loop body (specification Spec);         *)
(*   - the loop body applied to a record and then to the record it         *)
(*     emitted (specification SpecRepass).                                 *)
(***************************************************************************)
EXTENDS Integers, Sequences, FiniteSets, TLC

VARIABLES pc, fn, threshold, stats, f, out, ambigous_out, cls, fp, re

vars == <<pc, fn, threshold, stats, f, out, ambigous_out, cls, fp, re>>

(***************************************************************************)
(* Bounds                                                                  *)
(***************************************************************************)
\* longest read sequence in a stream
MaxLen == 2
\* longest input stream
MaxReads == 2
\* largest -t/--threshold of a stream run
MaxThreshold == 1
\* longest sequence scanned exhaustively
MaxScanLen == 5
\* largest max_mismatches given to find_poly
MaxMismatches == 1
\* longest T..TA..A / A..A scenario sequence
ScenarioLen == 20
\* largest threshold when re-processing output
MaxRepassThreshold == 3

(***************************************************************************)
(* Values                                                                  *)
(***************************************************************************)
Bases == {"A", "C", "G", "T", "N"}

\* bases of the reads of a stream: the two find_poly looks for and one other
StreamBases == {"A", "C", "T"}

Seqs(B, n) == UNION {[1..k -> B] : k \in 0..n}

Max(a, b) == IF a >= b THEN a ELSE b

Abs(x) == IF x < 0 THEN 0 - x ELSE x

Reverse(s) == [k \in 1..Len(s) |-> s[Len(s) + 1 - k]]

\* Bio.Seq complement table restricted to Bases
Complement(b) ==
  CASE b = "A" -> "T"
    [] b = "T" -> "A"
    [] b = "C" -> "G"
    [] b = "G" -> "C"
    [] OTHER -> b

\* (mutant) complement without reversing the order
ReverseComplement_norev(s) == [k \in 1..Len(s) |-> Complement(s[k])]

\* str(Seq(s).reverse_complement())
ReverseComplement(s) == [k \in 1..Len(s) |-> Complement(s[Len(s) + 1 - k])]

(***************************************************************************)
(* find_poly                                                               *)
(***************************************************************************)
\* locals of find_poly before the loop (lines 24-26)
PolyInit ==
  [max_poly |-> [T |-> 0, A |-> 0],
   current_poly_length |-> 0,
   current_mismatches |-> 0,
   current_poly_base |-> "T"]

\* lines 28-30: at index n // 2 the run is reset and the target becomes 'A'
AtHalf(st, i, n) ==
  IF i = n \div 2
    THEN [st EXCEPT !.current_poly_length = 0,
                    !.current_mismatches = 0,
                    !.current_poly_base = "A"]
    ELSE st

\* which branch of lines 31-41 the iteration takes
PolyBranch(st, i, base, n, max_mismatches) ==
  LET s == AtHalf(st, i, n)
  IN  IF base = s.current_poly_base THEN "match"
      ELSE IF s.current_mismatches < max_mismatches THEN "tolerated"
      ELSE "closed"

\* (mutant) the run is not reset at the half
PolyStep_noreset(st, i, base, n, max_mismatches) ==
  LET s == IF i = n \div 2 THEN [st EXCEPT !.current_poly_base = "A"] ELSE st
      b == s.current_poly_base
  IN  IF base = b
        THEN [s EXCEPT !.current_poly_length = @ + 1,
                       !.current_mismatches = 0,
                       !.max_poly[b] = Max(@, s.current_poly_length + 1)]
        ELSE IF s.current_mismatches < max_mismatches
          THEN [s EXCEPT !.current_mismatches = @ + 1,
                         !.current_poly_length = @ + 1]
          ELSE [s EXCEPT !.max_poly[b] = Max(@, s.current_poly_length),
                         !.current_poly_length = 0,
                         !.current_mismatches = 0]

\* (mutant) a forced close leaves the mismatch counter as it is
PolyStep_keepmm(st, i, base, n, max_mismatches) ==
  LET s == AtHalf(st, i, n)
      b == s.current_poly_base
  IN  IF base = b
        THEN [s EXCEPT !.current_poly_length = @ + 1,
                       !.current_mismatches = 0,
                       !.max_poly[b] = Max(@, s.current_poly_length + 1)]
        ELSE IF s.current_mismatches < max_mismatches
          THEN [s EXCEPT !.current_mismatches = @ + 1,
                         !.current_poly_length = @ + 1]
          ELSE [s EXCEPT !.current_poly_length = 0]

\* one iteration of the loop of find_poly (lines 27-41); i is 0-based
PolyStep(st, i, base, n, max_mismatches) ==
  LET s == AtHalf(st, i, n)
      b == s.current_poly_base
  IN  IF base = b
        THEN [s EXCEPT !.current_poly_length = @ + 1,
                       !.current_mismatches = 0,
                       !.max_poly[b] = Max(@, s.current_poly_length + 1)]
        ELSE IF s.current_mismatches < max_mismatches
          THEN [s EXCEPT !.current_mismatches = @ + 1,
                         !.current_poly_length = @ + 1]
          ELSE [s EXCEPT !.max_poly[b] = Max(@, s.current_poly_length),
                         !.current_poly_length = 0,
                         !.current_mismatches = 0]

RECURSIVE PolyScan(_, _, _)
\* locals of find_poly after the first k iterations
PolyScan(sequence, max_mismatches, k) ==
  IF k = 0
    THEN PolyInit
    ELSE PolyStep(PolyScan(sequence, max_mismatches, k - 1), k - 1,
                  sequence[k], Len(sequence), max_mismatches)

\* find_poly(sequence, max_mismatches): the returned max_poly
find_poly(sequence, max_mismatches) ==
  PolyScan(sequence, max_mismatches, Len(sequence)).max_poly

(***************************************************************************)
(* Frame of one call of find_poly, stepped one iteration at a time         *)
(***************************************************************************)
ScanFrame(sequence, max_mismatches) ==
  [sequence |-> sequence,
   max_mismatches |-> max_mismatches,
   i |-> 0,
   branch |-> "none",
   before |-> PolyInit,
   max_poly |-> PolyInit.max_poly,
   current_poly_length |-> PolyInit.current_poly_length,
   current_mismatches |-> PolyInit.current_mismatches,
   current_poly_base |-> PolyInit.current_poly_base]

\* a call of find_poly that is not running
NoScan == [ScanFrame(<<>>, 0) EXCEPT !.branch = "idle"]

Locals(fr) ==
  [max_poly |-> fr.max_poly,
   current_poly_length |-> fr.current_poly_length,
   current_mismatches |-> fr.current_mismatches,
   current_poly_base |-> fr.current_poly_base]

\* T^(L // 2) A^(L - L // 2)
TthenA(L) == [k \in 1..L |-> IF k <= L \div 2 THEN "T" ELSE "A"]

AllA(L) == [k \in 1..L |-> "A"]

ScanInputs ==
  Seqs(Bases, MaxScanLen) \cup {TthenA(L) : L \in 0..ScenarioLen}
                   \cup {AllA(L) : L \in 0..ScenarioLen}

\* one iteration of "for i,base in enumerate(sequence)" (lines 27-41)
ScanStep ==
  /\ fp.branch # "idle"
  /\ fp.i < Len(fp.sequence)
  /\ LET n == Len(fp.sequence)
         base == fp.sequence[fp.i + 1]
         st == PolyStep(Locals(fp), fp.i, base, n, fp.max_mismatches)
     IN  fp' = [fp EXCEPT
                  !.i = @ + 1,
                  !.branch = PolyBranch(Locals(fp), fp.i, base, n,
                                        fp.max_mismatches),
                  !.before = AtHalf(Locals(fp), fp.i, n),
                  !.max_poly = st.max_poly,
                  !.current_poly_length = st.current_poly_length,
                  !.current_mismatches = st.current_mismatches,
                  !.current_poly_base = st.current_poly_base]
  /\ UNCHANGED <<pc, fn, threshold, stats, f, out, ambigous_out, cls, re>>

(***************************************************************************)
(* read_and_write_fastx / read_and_write_alignment                         *)
(***************************************************************************)
\* the stats dictionary of lines 45 and 65
ZeroStats ==
  [fwd_cnt |-> 0, fwd_len |-> 0, revcomp_cnt |-> 0, revcomp_len |-> 0,
   ambigous_cnt |-> 0, ambigous_len |-> 0, polyA_len |-> 0, polyT_len |-> 0]

\* (mutant) a difference equal to the threshold counts as ambiguous
Classify_le(diff, t) ==
  IF Abs(diff) <= t THEN "Ambiguous"
  ELSE IF diff < 0 THEN "ReverseComplement"
  ELSE "Forward"

\* the if / elif / else of lines 49-57 and 69-77
Classify(diff, t) ==
  IF Abs(diff) < t THEN "Ambiguous"
  ELSE IF diff < 0 THEN "ReverseComplement"
  ELSE "Forward"

\* (mutant) the reverse-complemented branch adds the poly-A length
UpdateStats_swapped(s, c, seqlen, max_poly) ==
  CASE c = "Ambiguous" ->
         [s EXCEPT !.ambigous_cnt = @ + 1, !.ambigous_len = @ + seqlen]
    [] c = "ReverseComplement" ->
         [s EXCEPT !.revcomp_cnt = @ + 1, !.revcomp_len = @ + seqlen,
                   !.polyT_len = @ + max_poly.A]
    [] OTHER ->
         [s EXCEPT !.fwd_cnt = @ + 1, !.fwd_len = @ + seqlen,
                   !.polyA_len = @ + max_poly.A]

\* the stats updates of the three branches (lines 50-51, 54-56, 58-60)
UpdateStats(s, c, seqlen, max_poly) ==
  CASE c = "Ambiguous" ->
         [s EXCEPT !.ambigous_cnt = @ + 1, !.ambigous_len = @ + seqlen]
    [] c = "ReverseComplement" ->
         [s EXCEPT !.revcomp_cnt = @ + 1, !.revcomp_len = @ + seqlen,
                   !.polyT_len = @ + max_poly.T]
    [] OTHER ->
         [s EXCEPT !.fwd_cnt = @ + 1, !.fwd_len = @ + seqlen,
                   !.polyA_len = @ + max_poly.A]

\* lines 67-80 for one read: run lengths, class, sequence after the branch
Orient(sequence, t) ==
  LET max_poly == find_poly(sequence, 0)
      diff == max_poly.A - max_poly.T
      c == Classify(diff, t)
  IN  [cls |-> c,
       max_poly |-> max_poly,
       sequence |-> IF c = "ReverseComplement"
                      THEN ReverseComplement(sequence)
                      ELSE sequence]

\* (mutant) the entry is put in front of the entries already written
Write_front(file, entry) == <<entry>> \o file

\* out.write(...) of lines 61 and 81
Write(file, entry) == Append(file, entry)

\* the reads a FastxFile can yield next: name, sequence, and one quality
\* value per base (the value at a position is that position)
FastxReads ==
  {[name |-> Len(f) + 1, sequence |-> s, quality |-> [k \in 1..Len(s) |-> k]] :
     s \in Seqs(StreamBases, MaxLen)}

\* the reads an AlignmentFile can yield next
AlignmentReads == {[name |-> Len(f) + 1, query_sequence |-> s] : s \in Seqs(StreamBases, MaxLen)}

\* the sequence attribute of a read of either kind
SeqOf(read) ==
  IF fn = "read_and_write_fastx" THEN read.sequence ELSE read.query_sequence

\* the values of -t/--threshold (type=int, line 10): a negative one too
Thresholds == {-1} \cup 0..MaxThreshold

\* detect_format (lines 14-21), on the text after the last "."
detect_format(ext) ==
  IF ext \in {"fq", "fastq", "fa", "fasta"} THEN <<0, "fx">>
  ELSE IF ext \in {"sam", "bam"} THEN <<0, ext>>
  ELSE <<1, ext>>

\* main (lines 103-121): the format check raises ValueError; otherwise
\* line 109 uses the name Path, which the module never imports
Main ==
  /\ pc = "start"
  /\ \E ext \in {"fq", "fastq", "fa", "fasta", "sam", "bam", "txt"},
        format \in {"None", "fq", "fa", "sam", "bam"},
        ambigous \in {"None", "ambigous.fq"} :
       LET d == detect_format(ext)
           fmt == IF format # "None" THEN format ELSE d[2]
       IN  pc' = IF d[1] = 1 THEN "ValueError" ELSE "NameError"
  /\ fn' = "main"
  /\ UNCHANGED <<threshold, stats, f, out, ambigous_out, cls, fp, re>>

\* read_and_write_fastx(f, out, threshold) is entered (lines 64-65)
CallFastx ==
  /\ pc = "start"
  /\ pc' = "for"
  /\ fn' = "read_and_write_fastx"
  /\ stats' = ZeroStats
  /\ UNCHANGED <<threshold, f, out, ambigous_out, cls, fp, re>>

\* read_and_write_alignment(f, out, threshold) is entered (lines 44-45)
CallAlignment ==
  /\ pc = "start"
  /\ pc' = "for"
  /\ fn' = "read_and_write_alignment"
  /\ stats' = ZeroStats
  /\ UNCHANGED <<threshold, f, out, ambigous_out, cls, fp, re>>

\* "for read in f" yields the next read (lines 46, 66)
Read ==
  /\ pc = "for"
  /\ Len(f) < MaxReads
  /\ \E read \in (IF fn = "read_and_write_fastx" THEN FastxReads
                                                  ELSE AlignmentReads) :
       f' = Append(f, read)
  /\ pc' = "body"
  /\ UNCHANGED <<fn, threshold, stats, out, ambigous_out, cls, fp, re>>

\* "for read in f" is exhausted and the function returns stats (62, 82)
EndOfStream ==
  /\ pc = "for"
  /\ pc' = "return"
  /\ UNCHANGED <<fn, threshold, stats, f, out, ambigous_out, cls, fp, re>>

\* the loop body (lines 47-61, 67-81) for the read last yielded
Body ==
  /\ pc = "body"
  /\ LET read == f[Len(f)]
         o == Orient(SeqOf(read), threshold)
     IN  /\ stats' = UpdateStats(stats, o.cls, Len(o.sequence), o.max_poly)
         /\ cls' = Append(cls, o.cls)
         /\ out' = Write(out,
                     IF fn = "read_and_write_fastx"
                       THEN [name |-> read.name, sequence |-> o.sequence,
                             quality |-> read.quality]
                       ELSE [read EXCEPT !.query_sequence = o.sequence])
  /\ pc' = "for"
  /\ UNCHANGED <<fn, threshold, f, ambigous_out, fp, re>>

(***************************************************************************)
(* A record processed, and the emitted record processed again              *)
(***************************************************************************)
\* nothing to re-process
NoRepass ==
  [sequence |-> <<>>, threshold |-> 0, pass |-> 2,
   cls1 |-> "none", emitted1 |-> <<>>, cls2 |-> "none", emitted2 |-> <<>>]

\* first run: lines 67-80 on the input sequence
FirstPass ==
  /\ re.pass = 0
  /\ LET o == Orient(re.sequence, re.threshold)
     IN  re' = [re EXCEPT !.pass = 1, !.cls1 = o.cls, !.emitted1 = o.sequence]
  /\ UNCHANGED <<pc, fn, threshold, stats, f, out, ambigous_out, cls, fp>>

\* second run: lines 67-80 on the sequence the first run wrote
SecondPass ==
  /\ re.pass = 1
  /\ LET o == Orient(re.emitted1, re.threshold)
     IN  re' = [re EXCEPT !.pass = 2, !.cls2 = o.cls, !.emitted2 = o.sequence]
  /\ UNCHANGED <<pc, fn, threshold, stats, f, out, ambigous_out, cls, fp>>

(***************************************************************************)
(* Specifications                                                          *)
(***************************************************************************)
Init ==
  /\ pc = "start"
  /\ fn = "none"
  /\ threshold \in Thresholds
  /\ stats = ZeroStats
  /\ f = <<>>
  /\ out = <<>>
  /\ ambigous_out = <<>>
  /\ cls = <<>>
  /\ fp = NoScan
  /\ re = NoRepass

Next == Main \/ CallFastx \/ CallAlignment \/ Read \/ EndOfStream \/ Body

Spec == Init /\ [][Next]_vars

\* the stream variables when no stream is processed
NoStream ==
  /\ pc = "return"
  /\ fn = "none"
  /\ threshold = 0
  /\ stats = ZeroStats
  /\ f = <<>>
  /\ out = <<>>
  /\ ambigous_out = <<>>
  /\ cls = <<>>

InitScan ==
  /\ NoStream
  /\ fp \in {ScanFrame(s, m) : s \in ScanInputs, m \in 0..MaxMismatches}
  /\ re = NoRepass

NextScan == ScanStep

SpecScan == InitScan /\ [][NextScan]_vars

InitRepass ==
  /\ NoStream
  /\ fp = NoScan
  /\ re \in {[NoRepass EXCEPT !.sequence = s, !.threshold = t, !.pass = 0] :
               s \in Seqs(Bases, MaxScanLen), t \in 0..MaxRepassThreshold}

NextRepass == FirstPass \/ SecondPass

SpecRepass == InitRepass /\ [][NextRepass]_vars

(***************************************************************************)
(* Properties                                                              *)
(***************************************************************************)
\* the longest run of sym that lies within s
LongestRun(s, sym) ==
  LET Run(k) == \E a \in 1..(Len(s) - k + 1) : \A j \in a..(a + k - 1) : s[j] = sym
  IN  CHOOSE k \in 0..Len(s) :
        /\ k = 0 \/ Run(k)
        /\ \A m \in (k + 1)..Len(s) : ~Run(m)

RECURSIVE SumOver(_, _)
SumOver(fun, S) ==
  IF S = {} THEN 0
  ELSE LET x == CHOOSE y \in S : TRUE
       IN  fun[x] + SumOver(fun, S \ {x})

\* indices of the processed reads the code put in class c
InClass(c) == {k \in 1..Len(cls) : cls[k] = c}

\* run lengths of the k-th read as it came from the source
RunsOf(k) == find_poly(SeqOf(f[k]), 0)

C2_HalfRuns ==
  (fp.branch # "idle" /\ fp.max_mismatches = 0 /\ fp.i = Len(fp.sequence)) =>
    LET L == Len(fp.sequence)
        h == L \div 2
    IN  /\ fp.max_poly.T = LongestRun(SubSeq(fp.sequence, 1, h), "T")
        /\ fp.max_poly.A = LongestRun(SubSeq(fp.sequence, h + 1, L), "A")
        /\ L = 0 => fp.max_poly = [T |-> 0, A |-> 0]
        /\ fp.sequence = TthenA(L) => fp.max_poly = [T |-> h, A |-> L - h]
        /\ fp.sequence = AllA(20) => fp.max_poly = [T |-> 0, A |-> 10]

C2_Witness ==
  /\ fp.max_mismatches = 0
  /\ fp.i = 5
  /\ fp.sequence = <<"A", "T", "T", "A", "A">>
  /\ fp.max_poly = [T |-> 1, A |-> 2]

\* C3 (state part): the counts, the length sums and the tail sums are those
\* of the reads processed so far, by class.
C3_Totals ==
  LET len == [k \in 1..Len(cls) |-> Len(SeqOf(f[k]))]
      aLen == [k \in 1..Len(cls) |-> RunsOf(k).A]
      tLen == [k \in 1..Len(cls) |-> RunsOf(k).T]
  IN  /\ Len(cls) = Len(out)
      /\ stats.fwd_cnt = Cardinality(InClass("Forward"))
      /\ stats.revcomp_cnt = Cardinality(InClass("ReverseComplement"))
      /\ stats.ambigous_cnt = Cardinality(InClass("Ambiguous"))
      /\ stats.fwd_cnt + stats.revcomp_cnt + stats.ambigous_cnt = Len(out)
      /\ stats.fwd_len = SumOver(len, InClass("Forward"))
      /\ stats.revcomp_len = SumOver(len, InClass("ReverseComplement"))
      /\ stats.ambigous_len = SumOver(len, InClass("Ambiguous"))
      /\ stats.polyA_len = SumOver(aLen, InClass("Forward"))
      /\ stats.polyT_len = SumOver(tLen, InClass("ReverseComplement"))

\* C3 (step part): a processed read raises exactly one count, by 1, and no
\* counter decreases.
C3_Step ==
  /\ \A c \in DOMAIN stats : stats'[c] >= stats[c]
  /\ Len(out') = Len(out) + 1 =>
       \E c \in {"fwd_cnt", "revcomp_cnt", "ambigous_cnt"} :
         /\ stats'[c] = stats[c] + 1
         /\ \A d \in {"fwd_cnt", "revcomp_cnt", "ambigous_cnt"} \ {c} :
              stats'[d] = stats[d]

\* C3: after every processed read the statistics are the per-class counts,
\* length sums and tail sums of the reads so far; each read changes exactly
\* one count by 1 and no counter ever decreases.
C3_Stats == [](C3_Totals) /\ [][C3_Step]_vars

C3_Witness ==
  /\ pc = "return"
  /\ stats.revcomp_cnt = 1
  /\ stats.polyT_len = 1
  /\ stats.revcomp_len = 2
  /\ stats.fwd_cnt = 1
  /\ stats.polyA_len = 1
  /\ stats.fwd_len = 1

C5_QualityReversed ==
  (fn = "read_and_write_fastx" /\ threshold >= 0) =>
    \A k \in 1..Len(out) :
      cls[k] = "ReverseComplement" => out[k].quality = Reverse(f[k].quality)

\* C6: with a negative threshold no read is taken, classified or written
\* and no statistics are accumulated.
C6_NegativeRejected ==
  threshold < 0 =>
    /\ f = <<>>
    /\ out = <<>>
    /\ cls = <<>>
    /\ stats = ZeroStats

\* C7: a read with an empty sequence is classified Ambiguous for every
\* non-negative threshold, counted in ambigous_cnt and written unmodified.
C7_EmptyAmbiguous ==
  threshold >= 0 =>
    \A k \in 1..Len(out) :
      SeqOf(f[k]) = <<>> =>
        /\ RunsOf(k) = [T |-> 0, A |-> 0]
        /\ cls[k] = "Ambiguous"
        /\ out[k] = f[k]
        /\ (Len(f) = 1 /\ Len(out) = 1) => stats.ambigous_cnt = 1

\* C8: an Ambiguous read is never written to the main output; it is written
\* to the -a/--ambigous file when that option is set and nowhere otherwise.
C8_AmbiguousRouted ==
  \A k \in 1..Len(cls) :
    cls[k] = "Ambiguous" =>
      /\ \A j \in 1..Len(out) : out[j].name # f[k].name
      /\ \/ \E j \in 1..Len(ambigous_out) : ambigous_out[j].name = f[k].name
         \/ ambigous_out = <<>>

\* the symbol the last iteration looked at
Observed == fp.sequence[fp.i]

\* C9 as stated: a forced close records the run length into the bucket of
\* the observed symbol, and into neither bucket when that symbol is not
\* 'A' or 'T'; run length and mismatch counter become 0, target unchanged.
C9_ObservedBucket ==
  fp.branch = "closed" =>
    /\ fp.max_poly = IF Observed \in {"A", "T"}
                       THEN [fp.before.max_poly EXCEPT
                               ![Observed] = Max(@, fp.before.current_poly_length)]
                       ELSE fp.before.max_poly
    /\ fp.current_poly_length = 0
    /\ fp.current_mismatches = 0
    /\ fp.current_poly_base = fp.before.current_poly_base

\* C9 (amended): a forced close records the run length into the bucket of
\* the target symbol of the current half, whatever the observed symbol is,
\* and leaves the other bucket unchanged; run length and mismatch counter
\* become 0 and the target symbol stays the same.
C9_TargetBucket ==
  fp.branch = "closed" =>
    LET b == fp.before.current_poly_base
    IN  /\ Observed # b
        /\ fp.before.current_mismatches >= fp.max_mismatches
        /\ fp.max_poly = [fp.before.max_poly EXCEPT
                            ![b] = Max(@, fp.before.current_poly_length)]
        /\ fp.current_poly_length = 0
        /\ fp.current_mismatches = 0
        /\ fp.current_poly_base = b

C9_Witness ==
  /\ fp.branch = "closed"
  /\ fp.max_mismatches = 1
  /\ Observed = "T"
  /\ fp.before.current_poly_base = "A"
  /\ fp.before.max_poly.A = 1
  /\ fp.before.current_poly_length = 2
  /\ fp.max_poly.A = 2
  /\ fp.max_poly.T = fp.before.max_poly.T

\* C10: processing an emitted read again never gives ReverseComplement: a
\* ReverseComplement read comes out Forward, a Forward read Forward, an
\* Ambiguous read Ambiguous, and the second pass changes no sequence.
C10_Canonical ==
  re.pass = 2 /\ re.cls1 # "none" =>
    /\ re.cls2 # "ReverseComplement"
    /\ re.cls1 = "ReverseComplement" => re.cls2 = "Forward"
    /\ re.cls1 = "Forward" => re.cls2 = "Forward"
    /\ re.cls1 = "Ambiguous" => re.cls2 = "Ambiguous"
    /\ re.emitted2 = re.emitted1

C10_Witness ==
  /\ re.pass = 2
  /\ Len(re.sequence) = 5
  /\ re.threshold = 2
  /\ re.cls1 = "ReverseComplement"
  /\ re.emitted1 # re.sequence
  /\ re.cls2 = "Forward"

====
